---- MODULE Spec2Model ----
(***************************************************************************)
(* Model of examples/datasets/dataset_origin_example.py: main() reads a    *)
(* credential, issues four blocking HTTP calls (project, dataset, insert,  *)
(* fetch), displays the fetched records and prints an explanation.         *)
(*                                                                         *)
(* Optional values (an environment variable that may be unset, a JSON key  *)
(* that may be missing, the result of dict.get) are modelled as tuples:    *)
(* <<>> is "absent / None", <<v>> is "present with value v".               *)
(*                                                                         *)
(* The remote service is the environment: every call either fails with a   *)
(* network error or returns a response chosen nondeterministically from    *)
(* the response sets below.  A response body is either not JSON at all or  *)
(* a JSON object; "events", when the object holds it, is a list of JSON    *)
(* objects; an error status never carries the success fields (id, events). *)
(* The script never reads the status of a response.                        *)
(***************************************************************************)
EXTENDS Naturals, Sequences, FiniteSets, TLC

VARIABLES
    api_key,      \* os.environ.get("BRAINTRUST_API_KEY"), an optional string
    pc,           \* position of main()
    exc,          \* the uncaught exception that ended the run, "" if none
    requests,     \* HTTP requests issued so far, in order
    responses,    \* outcomes of the HTTP calls that have returned, in order
    project_id,   \* local project_id, optional
    dataset_id,   \* local dataset_id, optional
    events,       \* local fetch_result["events"]
    i,            \* number of records the display loop has printed
    out,          \* lines printed so far (one entry per print group)
    origins       \* origins derived by the evaluation loop (SpecEval only)

vars == <<api_key, pc, exc, requests, responses, project_id, dataset_id,
          events, i, out, origins>>

----------------------------------------------------------------------------
(* Bounds and value domains *)

MaxEvents == 2

ApiKeys == {<<>>, <<"">>, <<"sk-1">>}
ProjectIds == {"p1", "p2"}
DatasetIds == {"d1", "d2"}
Statuses == {"200", "401", "500"}

FetchLimit == 10

\* python truthiness of an optional string: None and "" are falsy
Truthy(o) == o # <<>> /\ o[1] # ""

----------------------------------------------------------------------------
(* The two hardcoded events of the insert request *)

In1 == [text |-> "hello world"]
Ex1 == [response |-> "Hello World"]
In2 == [text |-> "braintrust is awesome"]
Ex2 == [response |-> "Braintrust Is Awesome"]

InsertEvents ==
    << [input |-> In1, expected |-> Ex1],
       [input |-> In2, expected |-> Ex2] >>

----------------------------------------------------------------------------
(* Requests *)

base_url == "https://api.braintrust.dev"

\* f"Bearer {api_key}"
headers(key) == [Authorization |-> <<"Bearer", key>>]

ProjectRequest(key) ==
    [ep |-> "project", method |-> "POST", path |-> <<base_url, "/v1/project">>,
     headers |-> headers(key),
     json |-> [name |-> "python-origin-demo", org_name |-> "Braintrust"]]

DatasetRequestLiteral(key, pid) ==
    [ep |-> "dataset", method |-> "POST", path |-> <<base_url, "/v1/dataset">>,
     headers |-> headers(key),
     json |-> [project_id |-> "project_id", name |-> "Python Dataset Example"]]

DatasetRequest(key, pid) ==
    [ep |-> "dataset", method |-> "POST", path |-> <<base_url, "/v1/dataset">>,
     headers |-> headers(key),
     json |-> [project_id |-> pid, name |-> "Python Dataset Example"]]

InsertRequest(key, did) ==
    [ep |-> "insert", method |-> "POST",
     path |-> <<base_url, "/v1/dataset/", did, "/insert">>,
     headers |-> headers(key),
     json |-> [events |-> InsertEvents]]

FetchRequest(key, did) ==
    [ep |-> "fetch", method |-> "GET",
     path |-> <<base_url, "/v1/dataset/", did, "/fetch">>,
     headers |-> headers(key),
     params |-> [limit |-> FetchLimit]]

----------------------------------------------------------------------------
(* Responses of the remote service *)

NetErr == [kind |-> "neterr", status |-> "", json |-> FALSE,
           id |-> <<>>, events |-> <<>>]

Http(s, j, id, evs) == [kind |-> "http", status |-> s, json |-> j,
                        id |-> id, events |-> evs]

\* bodies of error responses and of malformed successes: not JSON, or a JSON
\* object without the field the script reads
NoFieldResponses == {Http(s, j, <<>>, <<>>) : s \in Statuses, j \in BOOLEAN}

IdResponses(ids) ==
    {NetErr} \cup NoFieldResponses
             \cup {Http("200", TRUE, <<id>>, <<>>) : id \in ids}

InsertResponses == {NetErr} \cup NoFieldResponses

Full(id, x, c, inp, ex) ==
    [id |-> id, xact |-> x, created |-> c, input |-> inp, expected |-> ex]

\* records a fetch may return: two complete rows, and rows lacking one or
\* all of the five fields, or carrying an empty id / _xact_id
Events ==
    { Full(<<"r1">>, <<"x1">>, <<"t1">>, <<In1>>, <<Ex1>>),
      Full(<<"r2">>, <<"x2">>, <<"t2">>, <<In2>>, <<Ex2>>),
      Full(<<>>,     <<"x1">>, <<"t1">>, <<In1>>, <<Ex1>>),
      Full(<<"r1">>, <<>>,     <<"t1">>, <<In1>>, <<Ex1>>),
      Full(<<"r1">>, <<"x1">>, <<>>,     <<In1>>, <<Ex1>>),
      Full(<<"r1">>, <<"x1">>, <<"t1">>, <<>>,    <<Ex1>>),
      Full(<<"r1">>, <<"x1">>, <<"t1">>, <<In1>>, <<>>),
      Full(<<"">>,   <<"x1">>, <<"t1">>, <<In1>>, <<Ex1>>),
      Full(<<"r1">>, <<"">>,   <<"t1">>, <<In1>>, <<Ex1>>),
      Full(<<>>,     <<>>,     <<>>,     <<>>,    <<>>) }

SeqsUpTo(S, n) == UNION {[1..k -> S] : k \in 0..n}

EventSeqs == SeqsUpTo(Events, MaxEvents)

FetchResponses ==
    {NetErr} \cup NoFieldResponses
             \cup {Http("200", TRUE, <<>>, <<es>>) : es \in EventSeqs}

----------------------------------------------------------------------------
(* Printed output *)

ErrorLine == [kind |-> "error"]
StepLine(n) == [kind |-> "step", n |-> n]
IdLine(what, id) == [kind |-> "id", what |-> what, id |-> id]
InsertedLine == [kind |-> "inserted"]
FetchedLine(n) == [kind |-> "fetched", n |-> n]
ExplanationLines == [kind |-> "explanation"]

\* the six lines printed for one record: index i+1 and the five event.get
\* values (event.get yields None, here <<>>, for a key the record lacks)
RecordLines(k, event) ==
    [kind |-> "record", n |-> k,
     id |-> event.id, xact |-> event.xact,
     created |-> event.created,
     input |-> event.input, expected |-> event.expected]

----------------------------------------------------------------------------
(* main() *)

Init ==
    /\ api_key \in ApiKeys
    /\ pc = "start"
    /\ exc = ""
    /\ requests = <<>>
    /\ responses = <<>>
    /\ project_id = <<>>
    /\ dataset_id = <<>>
    /\ events = <<>>
    /\ i = 0
    /\ out = <<>>
    /\ origins = <<>>

\* "if not api_key": the credential is usable when set and non-empty
HasCredentialDropped(key) == TRUE

HasCredential(key) == Truthy(key)

\* an uncaught exception ends the run
Raise(e) ==
    /\ pc' = "crashed"
    /\ exc' = e

\* the exception raised by resp.json()["id"], "" when the id can be read
JsonIdExc(r) ==
    IF ~r.json THEN "JSONDecodeError"
    ELSE IF r.id = <<>> THEN "KeyError"
    ELSE ""

\* the exception raised by resp.json() and fetch_result["events"]
JsonEventsExc(r) ==
    IF ~r.json THEN "JSONDecodeError"
    ELSE IF r.events = <<>> THEN "KeyError"
    ELSE ""

CheckCredential ==
    /\ pc = "start"
    /\ IF ~HasCredential(api_key)
       THEN /\ out' = Append(out, ErrorLine)
            /\ pc' = "done"
       ELSE /\ out' = Append(out, StepLine(1))
            /\ pc' = "project"
    /\ UNCHANGED <<api_key, exc, requests, responses, project_id, dataset_id,
                   events, i, origins>>

SendProject ==
    /\ pc = "project"
    /\ requests' = Append(requests, ProjectRequest(api_key))
    /\ pc' = "project_wait"
    /\ UNCHANGED <<api_key, exc, responses, project_id, dataset_id, events, i,
                   out, origins>>

RecvProjectRetry ==
    /\ pc = "project_wait"
    /\ \E r \in IdResponses(ProjectIds) :
         /\ responses' = Append(responses, r)
         /\ IF r.kind = "neterr"
            THEN /\ pc' = "project"
                 /\ UNCHANGED <<exc, project_id, out>>
            ELSE IF JsonIdExc(r) # ""
            THEN /\ Raise(JsonIdExc(r))
                 /\ UNCHANGED <<project_id, out>>
            ELSE /\ project_id' = r.id
                 /\ out' = out \o <<IdLine("project", r.id[1]), StepLine(2)>>
                 /\ pc' = "dataset"
                 /\ exc' = exc
    /\ UNCHANGED <<api_key, requests, dataset_id, events, i, origins>>

RecvProject ==
    /\ pc = "project_wait"
    /\ \E r \in IdResponses(ProjectIds) :
         /\ responses' = Append(responses, r)
         /\ IF r.kind = "neterr"
            THEN /\ Raise("ConnectionError")
                 /\ UNCHANGED <<project_id, out>>
            ELSE IF JsonIdExc(r) # ""
            THEN /\ Raise(JsonIdExc(r))
                 /\ UNCHANGED <<project_id, out>>
            ELSE /\ project_id' = r.id
                 /\ out' = out \o <<IdLine("project", r.id[1]), StepLine(2)>>
                 /\ pc' = "dataset"
                 /\ exc' = exc
    /\ UNCHANGED <<api_key, requests, dataset_id, events, i, origins>>

SendDataset ==
    /\ pc = "dataset"
    /\ requests' = Append(requests, DatasetRequest(api_key, project_id[1]))
    /\ pc' = "dataset_wait"
    /\ UNCHANGED <<api_key, exc, responses, project_id, dataset_id, events, i,
                   out, origins>>

RecvDataset ==
    /\ pc = "dataset_wait"
    /\ \E r \in IdResponses(DatasetIds) :
         /\ responses' = Append(responses, r)
         /\ IF r.kind = "neterr"
            THEN /\ Raise("ConnectionError")
                 /\ UNCHANGED <<dataset_id, out>>
            ELSE IF JsonIdExc(r) # ""
            THEN /\ Raise(JsonIdExc(r))
                 /\ UNCHANGED <<dataset_id, out>>
            ELSE /\ dataset_id' = r.id
                 /\ out' = out \o <<IdLine("dataset", r.id[1]), StepLine(3)>>
                 /\ pc' = "insert"
                 /\ exc' = exc
    /\ UNCHANGED <<api_key, requests, project_id, events, i, origins>>

SendInsert ==
    /\ pc = "insert"
    /\ requests' = Append(requests, InsertRequest(api_key, dataset_id[1]))
    /\ pc' = "insert_wait"
    /\ UNCHANGED <<api_key, exc, responses, project_id, dataset_id, events, i,
                   out, origins>>

RecvInsertChecked ==
    /\ pc = "insert_wait"
    /\ \E r \in InsertResponses :
         /\ responses' = Append(responses, r)
         /\ IF r.kind = "neterr"
            THEN /\ Raise("ConnectionError")
                 /\ out' = out
            ELSE IF r.status # "200"
            THEN /\ Raise("HTTPError")
                 /\ out' = out
            ELSE /\ out' = out \o <<InsertedLine, StepLine(4)>>
                 /\ pc' = "fetch"
                 /\ exc' = exc
    /\ UNCHANGED <<api_key, requests, project_id, dataset_id, events, i,
                   origins>>

\* the response is bound to resp and never read
RecvInsert ==
    /\ pc = "insert_wait"
    /\ \E r \in InsertResponses :
         /\ responses' = Append(responses, r)
         /\ IF r.kind = "neterr"
            THEN /\ Raise("ConnectionError")
                 /\ out' = out
            ELSE /\ out' = out \o <<InsertedLine, StepLine(4)>>
                 /\ pc' = "fetch"
                 /\ exc' = exc
    /\ UNCHANGED <<api_key, requests, project_id, dataset_id, events, i,
                   origins>>

SendFetch ==
    /\ pc = "fetch"
    /\ requests' = Append(requests, FetchRequest(api_key, dataset_id[1]))
    /\ pc' = "fetch_wait"
    /\ UNCHANGED <<api_key, exc, responses, project_id, dataset_id, events, i,
                   out, origins>>

RecvFetchDefaulted ==
    /\ pc = "fetch_wait"
    /\ \E r \in FetchResponses :
         /\ responses' = Append(responses, r)
         /\ IF r.kind = "neterr"
            THEN /\ Raise("ConnectionError")
                 /\ UNCHANGED <<events, out>>
            ELSE IF ~r.json
            THEN /\ Raise("JSONDecodeError")
                 /\ UNCHANGED <<events, out>>
            ELSE /\ events' = (IF r.events = <<>> THEN <<>> ELSE r.events[1])
                 /\ out' = Append(out, FetchedLine(Len(events')))
                 /\ pc' = "display"
                 /\ exc' = exc
    /\ UNCHANGED <<api_key, requests, project_id, dataset_id, i, origins>>

RecvFetch ==
    /\ pc = "fetch_wait"
    /\ \E r \in FetchResponses :
         /\ responses' = Append(responses, r)
         /\ IF r.kind = "neterr"
            THEN /\ Raise("ConnectionError")
                 /\ UNCHANGED <<events, out>>
            ELSE IF JsonEventsExc(r) # ""
            THEN /\ Raise(JsonEventsExc(r))
                 /\ UNCHANGED <<events, out>>
            ELSE /\ events' = r.events[1]
                 /\ out' = Append(out, FetchedLine(Len(r.events[1])))
                 /\ pc' = "display"
                 /\ exc' = exc
    /\ UNCHANGED <<api_key, requests, project_id, dataset_id, i, origins>>

DisplayRecordStrict ==
    /\ pc = "display"
    /\ i < Len(events)
    /\ IF events[i + 1].id = <<>>
       THEN /\ Raise("KeyError")
            /\ UNCHANGED <<i, out>>
       ELSE /\ out' = Append(out, RecordLines(i + 1, events[i + 1]))
            /\ i' = i + 1
            /\ UNCHANGED <<pc, exc>>
    /\ UNCHANGED <<api_key, requests, responses, project_id, dataset_id,
                   events, origins>>

\* one iteration of "for i, event in enumerate(fetch_result['events'])"
DisplayRecord ==
    /\ pc = "display"
    /\ i < Len(events)
    /\ out' = Append(out, RecordLines(i + 1, events[i + 1]))
    /\ i' = i + 1
    /\ UNCHANGED <<api_key, pc, exc, requests, responses, project_id,
                   dataset_id, events, origins>>

\* the loop is exhausted: the explanation and the closing tips are printed
PrintExplanation ==
    /\ pc = "display"
    /\ i = Len(events)
    /\ out' = Append(out, ExplanationLines)
    /\ pc' = "done"
    /\ UNCHANGED <<api_key, exc, requests, responses, project_id, dataset_id,
                   events, i, origins>>

Next ==
    \/ CheckCredential
    \/ SendProject
    \/ RecvProject
    \/ SendDataset
    \/ RecvDataset
    \/ SendInsert
    \/ RecvInsert
    \/ SendFetch
    \/ RecvFetch
    \/ DisplayRecord
    \/ PrintExplanation

Spec == Init /\ [][Next]_vars

----------------------------------------------------------------------------
(* The evaluation loop that consumes the fetched records: for each record  *)
(* it builds a datum and derives the origin logged with the eval span.     *)

NoOrigin == <<>>

OriginEither(did, datum) ==
    IF Truthy(datum.id) \/ Truthy(datum.xact)
    THEN << [object_type |-> "dataset", object_id |-> did,
             id |-> datum.id, created |-> datum.created,
             xact_id |-> datum.xact] >>
    ELSE NoOrigin

OriginSwapped(did, datum) ==
    IF Truthy(datum.id) /\ Truthy(datum.xact)
    THEN << [object_type |-> "dataset", object_id |-> datum.id[1],
             id |-> <<did>>, created |-> datum.created,
             xact_id |-> datum.xact] >>
    ELSE NoOrigin

\* origin = {...} if datum.id and datum._xact_id else None
Origin(did, datum) ==
    IF Truthy(datum.id) /\ Truthy(datum.xact)
    THEN << [object_type |-> "dataset", object_id |-> did,
             id |-> datum.id, created |-> datum.created,
             xact_id |-> datum.xact] >>
    ELSE NoOrigin

InitEval ==
    /\ api_key = <<"sk-1">>
    /\ pc = "eval"
    /\ exc = ""
    /\ requests = <<>>
    /\ responses = <<>>
    /\ project_id \in {<<p>> : p \in ProjectIds}
    /\ dataset_id \in {<<d>> : d \in DatasetIds}
    /\ events \in EventSeqs
    /\ i = 0
    /\ out = <<>>
    /\ origins = <<>>

\* the evaluation of the next record: its origin is derived and logged
RunCase ==
    /\ pc = "eval"
    /\ Len(origins) < Len(events)
    /\ origins' = Append(origins,
                         Origin(dataset_id[1], events[Len(origins) + 1]))
    /\ UNCHANGED <<api_key, pc, exc, requests, responses, project_id,
                   dataset_id, events, i, out>>

NextEval == RunCase

SpecEval == InitEval /\ [][NextEval]_vars

----------------------------------------------------------------------------
(* Properties *)

IsRecordLine(l) == l.kind = "record"
IsFetchedLine(l) == l.kind = "fetched"
IsInsertedLine(l) == l.kind = "inserted"
IsErrorLine(l) == l.kind = "error"
IsExplanation(l) == l.kind = "explanation"

Count(seq, Test(_)) == Len(SelectSeq(seq, Test))

Order == <<"project", "dataset", "insert", "fetch">>

\* the k-th call returned an HTTP response (of any status and body)
Arrived(k) == k <= Len(responses) /\ responses[k].kind = "http"

\* the k-th call returned a JSON object holding an id
IdRead(k) == Arrived(k) /\ responses[k].json /\ responses[k].id # <<>>

\* the fetch returned a JSON object holding an events sequence
FetchRead == Arrived(4) /\ responses[4].json /\ responses[4].events # <<>>

\* C1: when the credential is missing (unset, or set to the empty string,
\* which "if not api_key" treats alike), no request is ever issued and no
\* response awaited, the configuration error is the only thing printed, it is
\* printed exactly once, and the run has ended without an exception.
C1_NoCredentialNoRequest ==
    api_key \in {<<>>, <<"">>} =>
        /\ requests = <<>>
        /\ responses = <<>>
        /\ exc = ""
        /\ \/ pc = "start" /\ out = <<>>
           \/ pc = "done" /\ out = <<[kind |-> "error"]>>

C1_Witness ==
    /\ api_key = <<>>
    /\ pc = "done"
    /\ Count(out, IsErrorLine) = 1
    /\ requests = <<>>

\* C2: every evaluated record whose id and _xact_id are both present (set
\* and non-empty, the test the origin expression applies) has the origin
\* {object_type: "dataset", object_id: the dataset's id, id: record.id,
\* created: record.created, _xact_id: record._xact_id}.
C2_OriginOfLinkedRecord ==
    \A k \in 1..Len(origins) :
        (/\ events[k].id # <<>> /\ events[k].id[1] # ""
         /\ events[k].xact # <<>> /\ events[k].xact[1] # "")
        => /\ Len(origins[k]) = 1
           /\ origins[k][1].object_type = "dataset"
           /\ origins[k][1].object_id = dataset_id[1]
           /\ origins[k][1].id = events[k].id
           /\ origins[k][1].created = events[k].created
           /\ origins[k][1].xact_id = events[k].xact

C2_Witness ==
    /\ pc = "eval"
    /\ Len(origins) = 2
    /\ dataset_id = <<"d2">>
    /\ events[2].id = <<"r2">>
    /\ events[2].xact = <<"x2">>
    /\ origins[2] # <<>>
    /\ events[1].created = <<>>
    /\ origins[1] # <<>>

\* C3: an evaluated record that lacks id or lacks _xact_id (the key is
\* missing, or its value is empty) gets no origin; an origin exists only for
\* a record on which both are present.
C3_NoOriginWithoutBoth ==
    \A k \in 1..Len(origins) :
        /\ (\/ events[k].id = <<>> \/ events[k].id = <<"">>
            \/ events[k].xact = <<>> \/ events[k].xact = <<"">>)
           => origins[k] = <<>>
        /\ origins[k] # <<>>
           => events[k].id # <<>> /\ events[k].xact # <<>>

C3_Witness ==
    /\ pc = "eval"
    /\ Len(origins) = 2
    /\ events[1].id = <<>>
    /\ events[1].xact = <<"x1">>
    /\ origins[1] = <<>>
    /\ events[2].id = <<"r1">>
    /\ events[2].xact = <<>>
    /\ origins[2] = <<>>

\* C4: the calls are issued in the order project, dataset, insert, fetch;
\* a call is issued only after the previous call's response has arrived; the
\* dataset request carries the id of the project response, and the insert
\* and fetch requests are addressed to the id of the dataset response.
C4_CallOrder ==
    /\ Len(requests) <= 4
    /\ \A k \in 1..Len(requests) : requests[k].ep = Order[k]
    /\ Len(responses) <= Len(requests)
    /\ Len(requests) <= Len(responses) + 1
    /\ \A k \in 2..Len(requests) : Arrived(k - 1)
    /\ Len(requests) >= 2 =>
          /\ IdRead(1)
          /\ requests[2].json.project_id = responses[1].id[1]
    /\ \A k \in 3..Len(requests) :
          /\ IdRead(2)
          /\ requests[k].path[3] = responses[2].id[1]
    /\ requests # <<>> => api_key \notin {<<>>, <<"">>}

C4_Witness ==
    /\ Len(requests) = 4
    /\ responses[1].id = <<"p2">>
    /\ responses[2].id = <<"d1">>
    /\ requests[2].json.project_id = "p2"
    /\ requests[4].path = <<base_url, "/v1/dataset/", "d1", "/fetch">>

\* C7: the insert step sends the fixed batch of two {input, expected}
\* records in one request, and whatever HTTP response comes back (any
\* status, JSON or not) the confirmation is printed once and the run moves
\* on to the fetch step: it never raises at the insert step.
C7_InsertResponseIgnored ==
    /\ \A k \in 1..Len(requests) :
          requests[k].ep = "insert" =>
             /\ k = 3
             /\ Len(requests[k].json.events) = 2
             /\ requests[k].json.events =
                  << [input |-> [text |-> "hello world"],
                      expected |-> [response |-> "Hello World"]],
                     [input |-> [text |-> "braintrust is awesome"],
                      expected |-> [response |-> "Braintrust Is Awesome"]] >>
    /\ Arrived(3) =>
          /\ Count(out, IsInsertedLine) = 1
          /\ pc # "insert_wait"
          /\ Len(responses) = 3 => pc \in {"fetch", "fetch_wait"} /\ exc = ""
          /\ pc # "fetch" => Len(requests) = 4 /\ requests[4].ep = "fetch"
    /\ ~Arrived(3) => Count(out, IsInsertedLine) = 0

C7_Witness ==
    /\ Arrived(3)
    /\ responses[3].status = "500"
    /\ ~responses[3].json
    /\ Len(requests) = 4
    /\ requests[4].ep = "fetch"
    /\ pc = "done"

\* a failure mode of a call's outcome: a network error, an error status
\* (authorization failure, server error), a body that is not JSON, or an
\* empty result set
FailureMode(r) ==
    \/ r.kind = "neterr"
    \/ r.status # "200"
    \/ ~r.json
    \/ r.events = << <<>> >>

\* C8 as stated: a run in which any call met a failure mode never completes
\* normally.
C8_AnyFailureEndsRun ==
    (api_key = <<"sk-1">> /\ pc = "done") =>
        \A k \in 1..Len(responses) : ~FailureMode(responses[k])

\* the outcomes of the k-th call that the script cannot survive
Fatal(k, r) ==
    \/ r.kind = "neterr"
    \/ k \in {1, 2} /\ (~r.json \/ r.id = <<>>)
    \/ k = 4 /\ (~r.json \/ r.events = <<>>)

\* C8, amended: a network error at any of the four steps, and a response at
\* the project, dataset or fetch step whose body is not JSON or lacks the
\* field read from it, ends the run there with an uncaught exception (no
\* later request, no explanation); no other outcome of the calls modelled
\* does: an error response at the insert step is ignored and an empty
\* result set is displayed as zero records, and a run that ends normally
\* has made all four calls.
C8_FatalOutcomesEndRun ==
    /\ \A k \in 1..Len(responses) :
          Fatal(k, responses[k]) =>
             /\ pc = "crashed"
             /\ exc \in {"ConnectionError", "JSONDecodeError", "KeyError"}
             /\ k = Len(responses)
             /\ Len(requests) = k
             /\ Count(out, IsExplanation) = 0
    /\ pc = "crashed" =>
          /\ responses # <<>>
          /\ Fatal(Len(responses), responses[Len(responses)])
    /\ exc # "" <=> pc = "crashed"
    /\ (api_key = <<"sk-1">> /\ pc = "done") =>
          /\ Len(responses) = 4
          /\ Count(out, IsExplanation) = 1

C8_Witness ==
    /\ pc = "crashed"
    /\ exc = "KeyError"
    /\ Len(responses) = 4
    /\ responses[3].status = "401"
    /\ responses[4].status = "401"
    /\ responses[4].json

\* C9: once the fetch has returned its events, the count line shows their
\* number, and the records are displayed right after it, once each, in the
\* order of the response, each with its position and its five fields (an
\* absent field displayed as None); a record lacking fields neither stops
\* the loop nor raises, and at the end every record has been displayed.
C9_DisplayInOrder ==
    FetchRead =>
        LET evs == responses[4].events[1] IN
        /\ pc \in {"display", "done"}
        /\ exc = ""
        /\ events = evs
        /\ i <= Len(evs)
        /\ Count(out, IsRecordLine) = i
        /\ Count(out, IsFetchedLine) = 1
        /\ \E p \in 1..Len(out) :
              /\ out[p].kind = "fetched"
              /\ out[p].n = Len(evs)
              /\ \A k \in 1..i :
                    /\ out[p + k].kind = "record"
                    /\ out[p + k].n = k
                    /\ out[p + k].id = evs[k].id
                    /\ out[p + k].xact = evs[k].xact
                    /\ out[p + k].created = evs[k].created
                    /\ out[p + k].input = evs[k].input
                    /\ out[p + k].expected = evs[k].expected
        /\ pc = "done" => i = Len(evs)

C9_Witness ==
    /\ FetchRead
    /\ pc = "done"
    /\ Len(events) = 2
    /\ events[1].id = <<>>
    /\ events[1].expected = <<>>
    /\ events[2].id = <<"r2">>
    /\ Count(out, IsRecordLine) = 2

\* C10: each endpoint is requested at most once (at most four requests, no
\* retry); a later request is issued only if every earlier call returned a
\* response, with a readable id for the project and dataset calls; and the
\* explanation is printed only after the fetch step and its display loop
\* have completed.
C10_AtMostOnceEach ==
    /\ Len(requests) <= 4
    /\ \A j, k \in 1..Len(requests) : requests[j].ep = requests[k].ep => j = k
    /\ \A k \in 1..Len(requests) : \A j \in 1..(k - 1) :
          IF j \in {1, 2} THEN IdRead(j) ELSE Arrived(j)
    /\ Count(out, IsExplanation) <= 1
    /\ Count(out, IsExplanation) = 1 =>
          /\ pc = "done"
          /\ Len(requests) = 4
          /\ FetchRead
          /\ Count(out, IsRecordLine) = Len(responses[4].events[1])
          /\ out[Len(out)].kind = "explanation"

C10_Witness ==
    /\ pc = "done"
    /\ Len(requests) = 4
    /\ Count(out, IsExplanation) = 1
    /\ Len(responses[4].events[1]) = 2

====
